---- MODULE Spec2Model ----
(***************************************************************************)
(* Model of util/ascii_keymap.py: the key formatter (format_key), the row  *)
(* formatters (format_row, format_half_row, horizontal_bar) and the three  *)
(* layer renderers (generate_ascii_layer, generate_split_ascii_layer,      *)
(* generate_totem_ascii_layer).                                            *)
(*                                                                         *)
(* A Python str is a sequence of one-character strings, a list is a        *)
(* sequence, None and the empty list are both the empty sequence (the code *)
(* only tests them for truth).  The functions are pure: a behaviour draws  *)
(* the arguments in its initial state and one action per function applies  *)
(* it and stores what it returns (or that it raised) in result.            *)
(***************************************************************************)
EXTENDS Integers, Sequences, FiniteSets, TLC

VARIABLES
    key, rows, thumbs, encoders, pressed_keys, split_at,  \* arguments of format_key and the renderers
    the_row, the_max_len,                  \* arguments of format_row and format_half_row
    keyboard, keyboard_data, split_index,  \* arguments of generate_for_keyboard
    called,                                \* the function that was called, "none" before
    calls,                                 \* the renderer calls generate_for_keyboard made
    result                                 \* what the call returned, or that it raised

\* The arguments: no function changes them.
args ==
    <<key, rows, thumbs, encoders, pressed_keys, split_at, the_row, the_max_len,
      keyboard, keyboard_data, split_index>>

vars == <<args, called, calls, result>>

(***************************************************************************)
(* Python str and list primitives                                          *)
(***************************************************************************)

\* The grave accent character (U+0060).  The TLA+ lexer does not take it
\* inside a string, so the model writes it as a character of its own name.
BackQuote == "grave"

\* c * n for a one-character string c: the empty string for n <= 0.
Rep(c, n) == [i \in 1..n |-> c]

Min(a, b) == IF a < b THEN a ELSE b

Max(a, b) == IF a > b THEN a ELSE b

RECURSIVE MaxOf(_)
\* max(list) of a non-empty list of integers.
MaxOf(s) ==
    IF Len(s) = 1 THEN s[1] ELSE Max(s[1], MaxOf(Tail(s)))

RECURSIVE Concat(_)
\* The concatenation of a list of lists.
Concat(ss) ==
    IF ss = <<>> THEN <<>> ELSE Head(ss) \o Concat(Tail(ss))

RECURSIVE Join(_, _)
\* sep.join(parts)
Join(sep, parts) ==
    IF parts = <<>> THEN <<>>
    ELSE IF Len(parts) = 1 THEN parts[1]
    ELSE parts[1] \o sep \o Join(sep, Tail(parts))

\* [x for x in s if x]: the non-empty strings of s, in order.
Truthy(s) == SelectSeq(s, LAMBDA x : x /= <<>>)

\* s[:n] for n >= 0.
Take(s, n) == SubSeq(s, 1, Min(n, Len(s)))

\* s[n:] for n >= 0.
Drop(s, n) == SubSeq(s, n + 1, Len(s))

LowerLetters ==
    <<"a","b","c","d","e","f","g","h","i","j","k","l","m",
      "n","o","p","q","r","s","t","u","v","w","x","y","z">>

UpperLetters ==
    <<"A","B","C","D","E","F","G","H","I","J","K","L","M",
      "N","O","P","Q","R","S","T","U","V","W","X","Y","Z">>

\* str.upper() on one ASCII character.
UpperChar(c) ==
    IF \E i \in 1..26 : LowerLetters[i] = c
    THEN UpperLetters[CHOOSE i \in 1..26 : LowerLetters[i] = c]
    ELSE c

Upper(s) == [i \in 1..Len(s) |-> UpperChar(s[i])]

\* The characters str.strip() removes (those of the model's alphabet).
IsWhitespace(c) == c \in {" ", "\t"}

RECURSIVE LStrip(_)
LStrip(s) ==
    IF s /= <<>> /\ IsWhitespace(Head(s)) THEN LStrip(Tail(s)) ELSE s

RECURSIVE RStrip(_)
RStrip(s) ==
    IF s /= <<>> /\ IsWhitespace(s[Len(s)])
    THEN RStrip(SubSeq(s, 1, Len(s) - 1)) ELSE s

\* str.strip()
Strip(s) == RStrip(LStrip(s))

\* str.replace(" ", "")
RemoveSpaces(s) == SelectSeq(s, LAMBDA c : c /= " ")

\* str.center(width): CPython puts the odd padding character on the left
\* exactly when both the padding and the width are odd; never truncates.
Center(s, width) ==
    LET marg == width - Len(s)
        left == (marg \div 2) + (IF marg % 2 = 1 /\ width % 2 = 1 THEN 1 ELSE 0)
    IN  IF marg <= 0 THEN s
        ELSE Rep(" ", left) \o s \o Rep(" ", marg - left)

\* f"{s:^{width}}": the odd padding character goes on the right; never
\* truncates.
FormatCenter(s, width) ==
    LET marg == width - Len(s)
        left == marg \div 2
    IN  IF marg <= 0 THEN s
        ELSE Rep(" ", left) \o s \o Rep(" ", marg - left)

(***************************************************************************)
(* Module constants                                                        *)
(***************************************************************************)

KEY_WIDTH == 8

\* split_at=6, the default of generate_split_ascii_layer.
DefaultSplit == 6

LAYER_KEYS ==
    { <<"M","O","(","1",")">>, <<"M","O","(","2",")">>, <<"M","O","(","3",")">> }

TRANSPARENT_KEYS ==
    { <<"_","_","_","_","_","_","_">>,
      <<"T","R","A","N","S","P","A","R","E","N","T">>,
      <<"T","R","N","S">> }

HeldMarker == <<" "," ","H","L","D"," "," "," ">>

TransparentMarker == <<" "," ",".",".","."," "," "," ">>

(***************************************************************************)
(* format_key                                                              *)
(***************************************************************************)

\* key.strip().upper().replace(" ", "")
Normalize(k) == RemoveSpaces(Upper(Strip(k)))

\* pressed_keys and normalized_key in [normalize(k) for k in pressed_keys]
is_pressed(k, pressed) ==
    /\ pressed /= <<>>
    /\ \E i \in 1..Len(pressed) : Normalize(pressed[i]) = Normalize(k)

\* format_key with the layer-key test ahead of the pressed test.
format_key_layer_first(k, pressed) ==
    IF Normalize(k) \in LAYER_KEYS
    THEN <<"[">> \o Center(k, KEY_WIDTH - 2) \o <<"]">>
    ELSE IF is_pressed(k, pressed) THEN HeldMarker
    ELSE IF Normalize(k) \in TRANSPARENT_KEYS THEN TransparentMarker
    ELSE FormatCenter(k, KEY_WIDTH)

\* format_key testing the label as written, not its normal form, against
\* the transparent aliases.
format_key_raw_transparent(k, pressed) ==
    IF is_pressed(k, pressed) THEN HeldMarker
    ELSE IF Normalize(k) \in LAYER_KEYS
         THEN <<"[">> \o Center(k, KEY_WIDTH - 2) \o <<"]">>
    ELSE IF k \in TRANSPARENT_KEYS THEN TransparentMarker
    ELSE FormatCenter(k, KEY_WIDTH)

format_key(k, pressed) ==
    IF is_pressed(k, pressed) THEN HeldMarker
    ELSE IF Normalize(k) \in LAYER_KEYS
         THEN <<"[">> \o Center(k, KEY_WIDTH - 2) \o <<"]">>
    ELSE IF Normalize(k) \in TRANSPARENT_KEYS THEN TransparentMarker
    ELSE FormatCenter(k, KEY_WIDTH)

(***************************************************************************)
(* Rendered lines                                                          *)
(*                                                                         *)
(* A renderer returns "\n".join(layout).  The model keeps layout itself, a *)
(* list of lines; with each line's text it records which append produced   *)
(* it (kind), the index of the row it belongs to (row), and the pieces the *)
(* code built the text from: the left and right block (left, right), the   *)
(* blank run between them (gap), the label lists the blocks were formatted *)
(* from (lkeys, rkeys) and the number of cells joined into each block      *)
(* (lcells, rcells).                                                       *)
(***************************************************************************)

Prefix == <<" ","*"," ">>

Line(kind, row, text, left, gap, right, lkeys, rkeys, lcells, rcells) ==
    [kind |-> kind, row |-> row, text |-> text, left |-> left, gap |-> gap,
     right |-> right, lkeys |-> lkeys, rkeys |-> rkeys,
     lcells |-> lcells, rcells |-> rcells]

\* A line that is not made of blocks.
Plain(kind, text) == Line(kind, -1, text, <<>>, <<>>, <<>>, <<>>, <<>>, 0, 0)

Returned(layout) == [raised |-> FALSE, value |-> layout]

\* The call ended in an exception (UnboundLocalError).
Raised == [raised |-> TRUE, value |-> <<>>]

\* layout = ["/*", f" * {name}"]
Header(name) == << Plain("open", <<"/","*">>), Plain("title", Prefix \o name) >>

\* The early return without the closing marker.
NoKeys_unclosed(name) ==
    Returned(Header(name) \o
        << Plain("placeholder", <<" ","*"," ","N","o"," ","k","e","y","s"," ","d","e","f","i","n","e","d"," ","f","o","r"," ","t","h","i","s"," ","l","a","y","e","r">>) >>)

\* The early return of a layer with neither rows nor thumbs.
NoKeys(name) ==
    Returned(Header(name) \o
        << Plain("placeholder", <<" ","*"," ","N","o"," ","k","e","y","s"," ","d","e","f","i","n","e","d"," ","f","o","r"," ","t","h","i","s"," ","l","a","y","e","r">>),
           Plain("close", <<" ","*","/">>) >>)

(***************************************************************************)
(* format_row and generate_ascii_layer                                     *)
(***************************************************************************)

\* row + [""] * (max_len - len(row))
padded_row(row, max_len) ==
    row \o [i \in 1..(max_len - Len(row)) |-> <<>>]

\* format_key(k, pressed_keys) for k in padded
format_row_cells(row, max_len, pressed) ==
    LET padded == padded_row(row, max_len)
    IN  [i \in 1..Len(padded) |-> format_key(padded[i], pressed)]

format_row(row, max_len, pressed) ==
    <<"|"," ">> \o Join(<<" ","|"," ">>, format_row_cells(row, max_len, pressed))
        \o <<" ","|">>

\* max(len(row) for row in all_rows if row), or 1 when every row is empty.
max_length(all_rows) ==
    LET filled == SelectSeq(all_rows, LAMBDA r : r /= <<>>)
    IN  IF filled /= <<>>
        THEN MaxOf([i \in 1..Len(filled) |-> Len(filled[i])])
        ELSE 1

\* The width the borders are drawn at: the length of the formatted first
\* row, or a formula when there is no first row or it is empty.
actual_width(rs, maxlen, pressed) ==
    IF rs /= <<>> /\ rs[1] /= <<>>
    THEN Len(format_row(rs[1], maxlen, pressed))
    ELSE (KEY_WIDTH + 3) * maxlen - 1

\* The lines of the loop over rows: each row, and a separator after every
\* row but the last.
ascii_row_lines(rs, maxlen, width, pressed) ==
    Concat([i \in 1..Len(rs) |->
        LET body == format_row(rs[i], maxlen, pressed)
            sep  == <<"|">> \o Rep("-", width - 2) \o <<"|">>
        IN  << Line("row", i - 1, Prefix \o body, body, <<>>, <<>>,
                    padded_row(rs[i], maxlen), <<>>, maxlen, 0) >>
            \o (IF i - 1 < Len(rs) - 1
                THEN << Line("separator", i - 1, Prefix \o sep, sep, <<>>,
                             <<>>, <<>>, <<>>, 0, 0) >>
                ELSE <<>>)])

\* The thumb row and its border, centred under the block.
ascii_thumb_lines(th, width, pressed) ==
    LET shown           == Truthy(th)
        formatted_thumbs == [i \in 1..Len(shown) |-> format_key(shown[i], pressed)]
        thumb_string    == Join(<<" ","|"," ">>, formatted_thumbs)
        thumb_width     == Len(thumb_string) + 2
        left_padding    == Max(0, (width - thumb_width) \div 2)
        thumb_row       == <<"|"," ">> \o thumb_string \o <<" ","|">>
        thumb_border    == <<BackQuote>> \o Rep("-", thumb_width) \o <<"'">>
    IN  << Line("thumbs", -1, <<" ","*">> \o Rep(" ", left_padding) \o thumb_row,
                thumb_row, <<>>, <<>>, shown, <<>>, Len(shown), 0),
           Line("thumb_border", -1,
                <<" ","*">> \o Rep(" ", left_padding) \o thumb_border,
                thumb_border, <<>>, <<>>, <<>>, <<>>, 0, 0) >>

generate_ascii_layer(name, rs, th, pressed) ==
    IF rs = <<>> /\ th = <<>> THEN NoKeys(name)
    ELSE
        LET all_rows == rs \o (IF th /= <<>> THEN <<th>> ELSE <<>>)
            maxlen   == max_length(all_rows)
            width    == actual_width(rs, maxlen, pressed)
            top      == <<",">> \o Rep("-", width - 2) \o <<".">>
            bottom   == <<BackQuote>> \o Rep("-", width - 2) \o <<"'">>
        IN  Returned(
                Header(name)
                \o << Line("top", -1, Prefix \o top, top, <<>>, <<>>,
                           <<>>, <<>>, 0, 0) >>
                \o ascii_row_lines(rs, maxlen, width, pressed)
                \o << Line("bottom", -1, Prefix \o bottom, bottom, <<>>,
                           <<>>, <<>>, <<>>, 0, 0) >>
                \o (IF th /= <<>>
                    THEN ascii_thumb_lines(th, width, pressed) ELSE <<>>)
                \o << Plain("close", <<" ","*","/">>) >>)

(***************************************************************************)
(* format_half_row, horizontal_bar and the thumb clusters of the split     *)
(* renderers                                                               *)
(***************************************************************************)

\* The blank cell format_half_row pads with: nine spaces.
BlankHalfCell == <<" "," "," "," "," "," "," "," "," ">>

\* The cells of a half row: the formatted non-empty labels, then blank
\* cells while there are fewer than width.
half_row_cells(row, width, pressed) ==
    LET shown == Truthy(row)
    IN  [i \in 1..Len(shown) |-> format_key(shown[i], pressed)]
        \o [i \in 1..(width - Len(shown)) |-> BlankHalfCell]

format_half_row(row, width, pressed) ==
    <<"|">> \o Join(<<"|">>, half_row_cells(row, width, pressed)) \o <<"|">>

horizontal_bar(width) ==
    <<"|">> \o Join(<<"|">>, [i \in 1..width |-> Rep("-", KEY_WIDTH)]) \o <<"|">>

\* spacer = " " * (KEY_WIDTH * 5)
spacer == Rep(" ", KEY_WIDTH * 5)

\* left_count = (total_thumbs + 1) // 2
left_count(th) == (Len(th) + 1) \div 2

\* The two lines of the thumb clusters (the same code in the split and the
\* totem renderer); left is the left half of the last row drawn.
thumb_cluster_lines(th, left, bottom_spacer, pressed) ==
    LET left_thumb      == Take(th, left_count(th))
        right_thumb     == Drop(th, left_count(th))
        num_keys_indent == Len(left) - Len(left_thumb) + 1
        thumb_indent    == Rep(" ", num_keys_indent * (KEY_WIDTH + 1))
        lshown          == Truthy(left_thumb)
        rshown          == Truthy(right_thumb)
        left_thumb_str  ==
            Join(<<"|">>, [i \in 1..Len(lshown) |-> format_key(lshown[i], pressed)])
        right_thumb_str ==
            Join(<<"|">>, [i \in 1..Len(rshown) |-> format_key(rshown[i], pressed)])
        left_formatted  ==
            IF left_thumb_str /= <<>>
            THEN <<"|">> \o left_thumb_str \o <<"|">> ELSE <<>>
        right_formatted ==
            IF right_thumb_str /= <<>>
            THEN <<"|">> \o right_thumb_str \o <<"|">> ELSE <<>>
        center_gap      == Rep(" ", Len(bottom_spacer))
        left_bottom     ==
            IF left_thumb_str /= <<>>
            THEN <<BackQuote>> \o Rep("-", Len(left_formatted) - 2) \o <<"/">> ELSE <<>>
        right_bottom    ==
            IF right_thumb_str /= <<>>
            THEN <<"\\">> \o Rep("-", Len(right_formatted) - 2) \o <<"'">> ELSE <<>>
    IN  << Line("thumbs", -1,
                Prefix \o thumb_indent \o left_formatted \o center_gap
                    \o right_formatted,
                left_formatted, center_gap, right_formatted,
                left_thumb, right_thumb, Len(lshown), Len(rshown)),
           Line("thumb_border", -1,
                Prefix \o thumb_indent \o left_bottom \o center_gap
                    \o right_bottom,
                left_bottom, center_gap, right_bottom, <<>>, <<>>, 0, 0) >>

\* A line drawn as a left block, a gap and a right block after the prefix.
Halves(kind, row, indent, left, gap, right, lkeys, rkeys, lcells, rcells) ==
    Line(kind, row, Prefix \o indent \o left \o gap \o right,
         left, gap, right, lkeys, rkeys, lcells, rcells)

(***************************************************************************)
(* generate_split_ascii_layer                                              *)
(***************************************************************************)

\* left = row[:row_split] if len(row) > 0 else []
split_left(row, split) == IF Len(row) > 0 THEN Take(row, split) ELSE <<>>

\* split_right starting one column late: the key at the split column is lost.
split_right_skips_one(row, split) ==
    IF split < Len(row) THEN Drop(row, split + 1) ELSE <<>>

\* right = row[row_split:] if row_split < len(row) else []
split_right(row, split) == IF split < Len(row) THEN Drop(row, split) ELSE <<>>

\* left_width = max(left_widths) if left_widths else split_at
split_left_width(rs, split) ==
    IF rs /= <<>>
    THEN MaxOf([i \in 1..Len(rs) |->
                   IF rs[i] = <<>> THEN 0 ELSE Min(split, Len(rs[i]))])
    ELSE split

\* right_width = max(right_widths) if right_widths else 6
split_right_width(rs, split) ==
    IF rs /= <<>>
    THEN MaxOf([i \in 1..Len(rs) |->
                   IF rs[i] = <<>> THEN 0 ELSE Max(0, Len(rs[i]) - split)])
    ELSE 6

\* f"{encoder[0]}/{encoder[1]}" if len(encoder) >= 2 else ""
enc_display(encoder) ==
    IF Len(encoder) >= 2 THEN encoder[1] \o <<"/">> \o encoder[2] ELSE <<>>

\* encoders[0] if len(encoders) > 0 else ["", ""]
left_encoder(encs) == IF Len(encs) > 0 THEN encs[1] ELSE << <<>>, <<>> >>

\* encoders[1] if len(encoders) > 1 else ["", ""]
right_encoder(encs) == IF Len(encs) > 1 THEN encs[2] ELSE << <<>>, <<>> >>

\* len(encoders) > 0 and encoders[0] and any(encoders[0])
left_has_encoder(encs) ==
    /\ Len(encs) > 0
    /\ encs[1] /= <<>>
    /\ \E j \in 1..Len(encs[1]) : encs[1][j] /= <<>>

\* len(encoders) > 1 and encoders[1] and any(encoders[1])
right_has_encoder(encs) ==
    /\ Len(encs) > 1
    /\ encs[2] /= <<>>
    /\ \E j \in 1..Len(encs[2]) : encs[2][j] /= <<>>

\* The line of row i (0-based): with the encoder cells when i == 3 and
\* encoders is not empty.
split_row_line(i, row, encs, lw, rw, pressed, split) ==
    LET left  == split_left(row, split)
        right == split_right(row, split)
    IN  IF i = 3 /\ encs /= <<>>
        THEN LET left_enc_display   == enc_display(left_encoder(encs))
                 right_enc_display  == enc_display(right_encoder(encs))
                 left_with_encoder  ==
                     IF left_enc_display /= <<>>
                     THEN left \o <<left_enc_display>> ELSE left
                 right_with_encoder ==
                     IF right_enc_display /= <<>>
                     THEN <<right_enc_display>> \o right ELSE right
                 lwe == lw + (IF left_enc_display /= <<>> THEN 1 ELSE 0)
                 rwe == rw + (IF right_enc_display /= <<>> THEN 1 ELSE 0)
             IN  Halves("row", i, <<>>,
                        format_half_row(left_with_encoder, lwe, pressed),
                        spacer,
                        format_half_row(right_with_encoder, rwe, pressed),
                        left_with_encoder, right_with_encoder,
                        Len(half_row_cells(left_with_encoder, lwe, pressed)),
                        Len(half_row_cells(right_with_encoder, rwe, pressed)))
        ELSE Halves("row", i, <<>>,
                    format_half_row(left, lw, pressed), spacer,
                    format_half_row(right, rw, pressed), left, right,
                    Len(half_row_cells(left, lw, pressed)),
                    Len(half_row_cells(right, rw, pressed)))

\* The separator drawn after row i (0-based), widened when row i + 1 is the
\* encoder row.
split_separator_line(i, encs, lw, rw) ==
    LET widen == (i + 1) = 3 /\ encs /= <<>>
        next_left_width  ==
            lw + (IF widen /\ left_has_encoder(encs) THEN 1 ELSE 0)
        next_right_width ==
            rw + (IF widen /\ right_has_encoder(encs) THEN 1 ELSE 0)
    IN  Halves("separator", i, <<>>,
               horizontal_bar(next_left_width), spacer,
               horizontal_bar(next_right_width),
               <<>>, <<>>, next_left_width, next_right_width)

split_row_lines(rs, encs, lw, rw, pressed, split) ==
    Concat([n \in 1..Len(rs) |->
        << split_row_line(n - 1, rs[n], encs, lw, rw, pressed, split) >>
        \o (IF n - 1 < Len(rs) - 1
            THEN << split_separator_line(n - 1, encs, lw, rw) >>
            ELSE <<>>)])

\* The bottom border drawn with the spacer of the rows.
split_bottom_spacer_as_spacer == Rep(" ", KEY_WIDTH * 5)

\* bottom_spacer = " " * ((KEY_WIDTH * 3) - 2)
split_bottom_spacer == Rep(" ", (KEY_WIDTH * 3) - 2)

generate_split_ascii_layer(name, rs, th, encs, pressed, split) ==
    IF rs = <<>> /\ th = <<>> THEN NoKeys(name)
    ELSE IF th /= <<>> /\ rs = <<>>
    THEN Raised     \* len(left): left is assigned only in the loop over rows
    ELSE
        LET lw == split_left_width(rs, split)
            rw == split_right_width(rs, split)
            top_border_left  ==
                <<",">> \o Rep("-", (KEY_WIDTH + 1) * lw - 1) \o <<".">>
            top_border_right ==
                <<",">> \o Rep("-", (KEY_WIDTH + 1) * rw - 1) \o <<".">>
            bottom_left  ==
                <<BackQuote>> \o Rep("-", (KEY_WIDTH + 1) * lw) \o Rep("-", KEY_WIDTH)
                    \o <<"\\">>
            bottom_right ==
                <<"/">> \o Rep("-", KEY_WIDTH) \o Rep("-", (KEY_WIDTH + 1) * rw)
                    \o <<"'">>
        IN  Returned(
                Header(name)
                \o << Halves("top", -1, <<>>, top_border_left, spacer,
                             top_border_right, <<>>, <<>>, lw, rw) >>
                \o split_row_lines(rs, encs, lw, rw, pressed, split)
                \o << Halves("bottom", -1, <<>>, bottom_left,
                             split_bottom_spacer, bottom_right,
                             <<>>, <<>>, lw, rw) >>
                \o (IF th /= <<>>
                    THEN thumb_cluster_lines(th,
                             split_left(rs[Len(rs)], split),
                             split_bottom_spacer, pressed)
                    ELSE <<>>)
                \o << Plain("close", <<" ","*","/">>) >>)

(***************************************************************************)
(* generate_totem_ascii_layer                                              *)
(***************************************************************************)

\* s[a:b] for 0 <= a <= b.
Slice(s, a, b) == SubSeq(s, a + 1, Min(b, Len(s)))

\* len(rows[i]) if len(rows) > i else 0, for the 0-based index i.
row_len_or_zero(rs, i) == IF Len(rs) > i THEN Len(rs[i + 1]) ELSE 0

row_1_width(rs) == Min(5, row_len_or_zero(rs, 0))

row_2_width(rs) == Min(5, row_len_or_zero(rs, 1))

row_3_left_width(rs) == Min(6, row_len_or_zero(rs, 2))

\* max(0, len(rows[2]) - 6 if len(rows) > 2 else 0)
row_3_right_width(rs) ==
    Max(0, IF Len(rs) > 2 THEN Len(rs[3]) - 6 ELSE 0)

\* row_indent = " " * ((KEY_WIDTH + 1) * 1)
row_indent == Rep(" ", (KEY_WIDTH + 1) * 1)

\* bottom_spacer = " " * ((KEY_WIDTH * 3) - 1)
totem_bottom_spacer == Rep(" ", (KEY_WIDTH * 3) - 1)

\* rows[i][:5] if rows[i] else [], for the first two rows.
totem_left(row) == IF row /= <<>> THEN Take(row, 5) ELSE <<>>

\* rows[i][5:10] if rows[i] and len(rows[i]) > 5 else []
totem_right(row) ==
    IF row /= <<>> /\ Len(row) > 5 THEN Slice(row, 5, 10) ELSE <<>>

\* rows[2][:6] if rows[2] else []
totem_left_3(row) == IF row /= <<>> THEN Take(row, 6) ELSE <<>>

\* rows[2][6:] if rows[2] and len(rows[2]) > 6 else []
totem_right_3(row) ==
    IF row /= <<>> /\ Len(row) > 6 THEN Drop(row, 6) ELSE <<>>

\* The value of the local variable left when the thumb clusters are drawn:
\* the left half of the last of the first three rows.  Only called with at
\* least one row.
totem_last_left(rs) ==
    IF Len(rs) > 2 THEN totem_left_3(rs[3])
    ELSE IF Len(rs) > 1 THEN totem_left(rs[2])
    ELSE totem_left(rs[1])

\* First row: the row and the bar under it, both indented.
totem_row_1_lines(rs, pressed) ==
    IF Len(rs) > 0
    THEN LET left  == totem_left(rs[1])
             right == totem_right(rs[1])
             w     == row_1_width(rs)
         IN  << Halves("row", 0, row_indent,
                       format_half_row(left, w, pressed), spacer,
                       format_half_row(right, w, pressed), left, right,
                       Len(half_row_cells(left, w, pressed)),
                       Len(half_row_cells(right, w, pressed))),
                Halves("separator", 0, row_indent, horizontal_bar(w), spacer,
                       horizontal_bar(w), <<>>, <<>>, w, w) >>
    ELSE <<>>

\* Second row, indented, and the connector to the third row.
totem_row_2_lines(rs, pressed) ==
    IF Len(rs) > 1
    THEN LET left  == totem_left(rs[2])
             right == totem_right(rs[2])
             w     == row_2_width(rs)
             left_slant  == <<"/">> \o Rep("-", KEY_WIDTH)
             right_slant == Rep("-", KEY_WIDTH) \o <<"\\">>
         IN  << Halves("row", 1, row_indent,
                       format_half_row(left, w, pressed), spacer,
                       format_half_row(right, w, pressed), left, right,
                       Len(half_row_cells(left, w, pressed)),
                       Len(half_row_cells(right, w, pressed))),
                Halves("connector", 1, <<>>,
                       left_slant \o horizontal_bar(row_1_width(rs)), spacer,
                       horizontal_bar(row_1_width(rs)) \o right_slant,
                       <<>>, <<>>, row_1_width(rs), row_1_width(rs)) >>
    ELSE <<>>

\* Third row, full width.
totem_row_3_lines(rs, pressed) ==
    IF Len(rs) > 2
    THEN LET left  == totem_left_3(rs[3])
             right == totem_right_3(rs[3])
         IN  << Halves("row", 2, <<>>,
                       format_half_row(left, row_3_left_width(rs), pressed),
                       spacer,
                       format_half_row(right, row_3_right_width(rs), pressed),
                       left, right,
                       Len(half_row_cells(left, row_3_left_width(rs), pressed)),
                       Len(half_row_cells(right, row_3_right_width(rs), pressed))) >>
    ELSE <<>>

generate_totem_ascii_layer(name, rs, th, pressed) ==
    IF rs = <<>> /\ th = <<>> THEN NoKeys(name)
    ELSE IF th /= <<>> /\ rs = <<>>
    THEN Raised     \* len(left): left is assigned only when a row is drawn
    ELSE
        LET top_border ==
                <<",">> \o Rep("-", (KEY_WIDTH + 1) * row_1_width(rs) - 1) \o <<".">>
            bottom_left_width  ==
                (KEY_WIDTH + 1) * row_3_left_width(rs) + KEY_WIDTH
            bottom_right_width ==
                (KEY_WIDTH + 1) * row_3_right_width(rs) + KEY_WIDTH
            bottom_left  == <<BackQuote>> \o Rep("-", bottom_left_width) \o <<"\\">>
            bottom_right == <<"/">> \o Rep("-", bottom_right_width) \o <<"'">>
        IN  Returned(
                Header(name)
                \o << Halves("top", -1, row_indent, top_border, spacer,
                             top_border, <<>>, <<>>,
                             row_1_width(rs), row_1_width(rs)) >>
                \o totem_row_1_lines(rs, pressed)
                \o totem_row_2_lines(rs, pressed)
                \o totem_row_3_lines(rs, pressed)
                \o << Halves("bottom", -1, <<>>, bottom_left,
                             totem_bottom_spacer, bottom_right, <<>>, <<>>,
                             row_3_left_width(rs), row_3_right_width(rs)) >>
                \o (IF th /= <<>>
                    THEN thumb_cluster_lines(th, totem_last_left(rs),
                             totem_bottom_spacer, pressed)
                    ELSE <<>>)
                \o << Plain("close", <<" ","*","/">>) >>)

(***************************************************************************)
(* Inputs of the key formatter                                             *)
(***************************************************************************)

Labels ==
    { <<>>,
      <<"A">>, <<"q">>, <<"a","b">>, <<"E","s","c">>, <<" ">>,
      <<"M","O","(","1",")">>, <<"m","o","(","1",")">>,
      <<"M","o","(","2",")">>, <<"M","O","(","3",")">>,
      <<"M","O","(","4",")">>,
      <<"M","O"," ","(","1",")">>, <<"M"," ","O"," ","(","1",")">>,
      <<" ","M","O","(","1",")"," ">>, <<"\t","M","O","(","1",")">>,
      <<"T","R","N","S">>, <<"t","r","n","s">>, <<"T","r"," ","n","s">>,
      <<"_","_","_","_","_","_","_">>,
      <<"T","R","A","N","S","P","A","R","E","N","T">>,
      <<"t","r","a","n","s","p","a","r","e","n","t">>,
      <<"C","a","p","s","L","o","c","k">>,
      <<"B","a","c","k","s","p","a","c","e">> }

PressedLists ==
    { <<>>,
      << <<"M","O","(","1",")">> >>,
      << <<"m","o","(","1",")">>, <<"M","O","(","2",")">> >>,
      << <<" ","t","r","n","s">> >>,
      << <<>> >>,
      << <<"a">>, <<"M","O","(","3",")">> >> }

Unset == [raised |-> FALSE, value |-> <<>>]

\* format_row and format_half_row are not called: they have no arguments.
NoRow == the_row = <<>> /\ the_max_len = 0

\* generate_for_keyboard is not called: it has no arguments and makes no
\* renderer call.
NoKeyboard ==
    /\ keyboard = <<>>
    /\ keyboard_data = <<>>
    /\ split_index = <<>>
    /\ calls = <<>>

(***************************************************************************)
(* The key formatter called on its own                                     *)
(***************************************************************************)

InitKey ==
    /\ key \in Labels
    /\ pressed_keys \in PressedLists
    /\ rows = <<>>
    /\ thumbs = <<>>
    /\ encoders = <<>>
    /\ split_at = DefaultSplit
    /\ NoRow /\ NoKeyboard
    /\ called = "none"
    /\ result = Unset

FormatKey ==
    /\ called = "none"
    /\ called' = "format_key"
    /\ result' = [raised |-> FALSE, value |-> format_key(key, pressed_keys)]
    /\ UNCHANGED <<args, calls>>

NextKey == FormatKey

SpecKey == InitKey /\ [][NextKey]_vars

(***************************************************************************)
(* Inputs of the renderers                                                 *)
(***************************************************************************)

\* The most rows of a layer given to the uniform and the split renderer.
MaxRows == 5

\* The most rows of a layer given to the totem renderer, and of the layers
\* all three renderers are called on.
MaxTotemRows == 3

\* The most thumb keys of a layer.
MaxThumbs == 4

\* The title of the layer.
LayerName == <<"S","O","F","L","E"," ","-"," ","B","A","S","E"," ","L","a","y","e","r">>

\* Rows of a small keyboard: an empty row, a row with an empty ("no key")
\* label and a layer key, a longer row with a transparent key.
RowPool ==
    { <<>>,
      << <<"A">>, <<>>, <<"m","o","(","1",")">> >>,
      << <<"Q">>, <<"W">>, <<"T","R","N","S">>, <<"E","s","c">>, <<"T">> >> }

Row10 ==
    << <<"Q">>, <<"W">>, <<"E">>, <<"R">>, <<"T">>, <<"Y">>, <<"U">>, <<"I">>, <<"O">>, <<"P">> >>

Row12 ==
    << <<"C","t","r","l">>, <<"Z">>, <<"X">>, <<"C">>, <<"V">>, <<"B">>,
       <<"N">>, <<"M">>, <<",">>, <<".">>, <<"/">>, <<"E","n","t","e","r">> >>

\* Rows of the Totem: 10 keys (5 per half), 12 keys (6 per half), a short
\* row and an empty one.
TotemRowPool == { <<>>, << <<"Q">>, <<"W">>, <<"E">> >>, Row10, Row12 }

\* The thumb clusters are the prefixes of this one.
ThumbBase ==
    << <<"M","O","(","1",")">>, <<"S","h","i","f","t">>, <<>>, <<"S","p","a","c","e">>, <<"M","O","(","2",")">>, <<"B","k","s","p">> >>

ThumbPool == { Take(ThumbBase, n) : n \in 0..MaxThumbs }

\* No encoder, a left encoder, a left and a right encoder, an encoder with
\* two empty actions.
EncoderPool ==
    { <<>>,
      << << <<"V","o","l","-">>, <<"V","o","l","+">> >> >>,
      << << <<"V","o","l","-">>, <<"V","o","l","+">> >>, << <<"P","g","U","p">>, <<"P","g","D","n">> >> >>,
      << << <<>>, <<>> >> >> }

LayerPressed == { <<>>, << <<"M","O","(","1",")">> >> }

\* The split columns tried with the rows of RowPool (split_at is a column
\* index, not negative).
SplitPoints == {2, 3}

SeqsUpTo(S, n) == UNION { [1..m -> S] : m \in 0..n }

Renderers ==
    { "generate_ascii_layer", "generate_split_ascii_layer",
      "generate_totem_ascii_layer" }

(***************************************************************************)
(* The renderers called on a layer                                         *)
(***************************************************************************)

GenerateAsciiLayer ==
    /\ called = "none"
    /\ called' = "generate_ascii_layer"
    /\ result' = generate_ascii_layer(LayerName, rows, thumbs, pressed_keys)
    /\ UNCHANGED <<args, calls>>

GenerateSplitAsciiLayer ==
    /\ called = "none"
    /\ called' = "generate_split_ascii_layer"
    /\ result' = generate_split_ascii_layer(LayerName, rows, thumbs, encoders,
                                            pressed_keys, split_at)
    /\ UNCHANGED <<args, calls>>

GenerateTotemAsciiLayer ==
    /\ called = "none"
    /\ called' = "generate_totem_ascii_layer"
    /\ result' = generate_totem_ascii_layer(LayerName, rows, thumbs, pressed_keys)
    /\ UNCHANGED <<args, calls>>

\* Any of the three renderers on a layer of up to MaxTotemRows rows, the
\* degenerate layers among them.
Init ==
    /\ key = <<>>
    /\ rows \in SeqsUpTo(RowPool, MaxTotemRows)
    /\ thumbs \in ThumbPool
    /\ encoders \in EncoderPool
    /\ pressed_keys \in LayerPressed
    /\ split_at \in SplitPoints
    /\ NoRow /\ NoKeyboard
    /\ called = "none"
    /\ result = Unset

Next ==
    \/ GenerateAsciiLayer
    \/ GenerateSplitAsciiLayer
    \/ GenerateTotemAsciiLayer

Spec == Init /\ [][Next]_vars

\* The uniform renderer on layers of up to MaxRows rows.
InitUniform ==
    /\ key = <<>>
    /\ rows \in SeqsUpTo(RowPool, MaxRows)
    /\ thumbs \in ThumbPool
    /\ encoders = <<>>
    /\ pressed_keys \in LayerPressed
    /\ split_at = DefaultSplit
    /\ NoRow /\ NoKeyboard
    /\ called = "none"
    /\ result = Unset

NextUniform == GenerateAsciiLayer

SpecUniform == InitUniform /\ [][NextUniform]_vars

\* The split renderer on layers of up to MaxRows rows: any encoders over the
\* longest thumb cluster, or any thumb cluster without encoders; and on
\* layers of 10- and 12-key rows split at the default column.
InitSplit ==
    /\ key = <<>>
    /\ \/ /\ rows \in SeqsUpTo(RowPool, MaxRows)
          /\ split_at \in SplitPoints
          /\ \/ /\ encoders \in EncoderPool
                /\ thumbs = Take(ThumbBase, MaxThumbs)
             \/ /\ encoders = <<>>
                /\ thumbs \in ThumbPool
       \/ /\ rows \in SeqsUpTo({Row10, Row12}, 2)
          /\ split_at = DefaultSplit
          /\ encoders = <<>>
          /\ thumbs \in ThumbPool
    /\ pressed_keys \in LayerPressed
    /\ NoRow /\ NoKeyboard
    /\ called = "none"
    /\ result = Unset

NextSplit == GenerateSplitAsciiLayer

SpecSplit == InitSplit /\ [][NextSplit]_vars

\* The totem renderer on layers of 10- and 12-key rows.
InitTotem ==
    /\ key = <<>>
    /\ rows \in SeqsUpTo(TotemRowPool, MaxTotemRows)
    /\ thumbs \in ThumbPool
    /\ encoders = <<>>
    /\ pressed_keys \in LayerPressed
    /\ split_at = DefaultSplit
    /\ NoRow /\ NoKeyboard
    /\ called = "none"
    /\ result = Unset

NextTotem == GenerateTotemAsciiLayer

SpecTotem == InitTotem /\ [][NextTotem]_vars

(***************************************************************************)
(* generate_for_keyboard                                                   *)
(*                                                                         *)
(* A dict is the sequence of its entries in insertion order, an optional   *)
(* integer is None or a sequence of one integer.  The returned text is the *)
(* sequence of its lines: joining the outputs with "\n" puts the lines of  *)
(* each block, and one empty line for each "", one after the other.        *)
(***************************************************************************)

None == <<>>

Entry(name, value) == [name |-> name, value |-> value]

\* name in d
HasKey(d, name) == \E i \in 1..Len(d) : d[i].name = name

\* d.get(name, default)
Get(d, name, default) ==
    IF HasKey(d, name)
    THEN d[CHOOSE i \in 1..Len(d) : d[i].name = name].value
    ELSE default

\* a or b, of optional integers
Or(a, b) == IF a /= None /\ a /= <<0>> THEN a ELSE b

\* The "" appended after each block: an empty line of the text.
Blank == Plain("blank", <<>>)

\* f"{keyboard.upper()} - {layer_name.upper()} Layer"
layer_title(kb, layer_name) ==
    Upper(kb) \o <<" ","-"," ">> \o Upper(layer_name) \o <<" ","L","a","y","e","r">>

\* The split renderer called with split_at = current_split: a split column
\* of None raises a TypeError as soon as a row is cut, and the
\* UnboundLocalError of a layer of thumbs without rows otherwise.
call_split(title, rs, th, encs, pressed, current_split) ==
    IF current_split = None
    THEN IF rs = <<>> /\ th = <<>> THEN NoKeys(title) ELSE Raised
    ELSE generate_split_ascii_layer(title, rs, th, encs, pressed, current_split[1])

\* The totem renderer picked on the keyboard name alone.
selected_renderer_name_first(kb, is_split) ==
    IF kb = <<"t","o","t","e","m">>
    THEN "generate_totem_ascii_layer"
    ELSE IF is_split
         THEN "generate_split_ascii_layer"
         ELSE "generate_ascii_layer"

\* The renderer the loop body picks for a layer.
selected_renderer(kb, is_split) ==
    IF is_split
    THEN IF kb = <<"t","o","t","e","m">>
         THEN "generate_totem_ascii_layer"
         ELSE "generate_split_ascii_layer"
    ELSE "generate_ascii_layer"

\* The body of the loop on one layer that is not "config": the renderer
\* call it makes and what the call returns.
render_layer(kb, is_split, default_split, split_idx, layer_name, layer_data) ==
    LET rs == Get(layer_data, <<"r","o","w","s">>, <<>>)
        th == Get(layer_data, <<"t","h","u","m","b","s">>, <<>>)
        encs == Get(layer_data, <<"e","n","c","o","d","e","r","s">>, <<>>)
        pressed == Get(layer_data, <<"p","r","e","s","s","e","d">>, <<>>)
        title == layer_title(kb, layer_name)
        renderer == selected_renderer(kb, is_split)
        current_split == Or(split_idx, default_split)
    IN  [call |-> [renderer |-> renderer, title |-> title, layer |-> layer_name],
         out |-> IF renderer = "generate_totem_ascii_layer"
                 THEN generate_totem_ascii_layer(title, rs, th, pressed)
                 ELSE IF renderer = "generate_split_ascii_layer"
                      THEN call_split(title, rs, th, encs, pressed, current_split)
                      ELSE generate_ascii_layer(title, rs, th, pressed)]

\* The loop over layers.items() from entry i on, outputs and made_calls being
\* what the entries before i gave.  An exception of a renderer ends the call.
RECURSIVE layer_loop(_, _, _, _, _, _, _, _)
layer_loop(layers, i, kb, is_split, default_split, split_idx, outputs, made_calls) ==
    IF i > Len(layers)
    THEN [raised |-> FALSE, value |-> outputs, calls |-> made_calls]
    ELSE IF layers[i].name = <<"c","o","n","f","i","g">>
         THEN layer_loop(layers, i + 1, kb, is_split, default_split, split_idx,
                         outputs, made_calls)
         ELSE LET r == render_layer(kb, is_split, default_split, split_idx,
                                    layers[i].name, layers[i].value)
              IN  IF r.out.raised
                  THEN [raised |-> TRUE, value |-> <<>>,
                        calls |-> Append(made_calls, r.call)]
                  ELSE layer_loop(layers, i + 1, kb, is_split, default_split,
                                  split_idx,
                                  outputs \o r.out.value \o <<Blank>>,
                                  Append(made_calls, r.call))

\* The layers the loop runs over: keyboard_data["layers"], or keyboard_data
\* itself (the old format) when that is missing or empty and there is a
\* "base" entry.
layers_of(kb_data) ==
    LET layers == Get(kb_data, <<"l","a","y","e","r","s">>, <<>>)
    IN  IF layers = <<>> /\ HasKey(kb_data, <<"b","a","s","e">>) THEN kb_data ELSE layers

generate_for_keyboard(kb, kb_data, split_idx) ==
    LET config == Get(kb_data, <<"c","o","n","f","i","g">>, <<>>)
        is_split == Get(config, <<"i","s","_","s","p","l","i","t">>, FALSE)
        default_split == Get(config, <<"s","p","l","i","t","_","a","t">>, <<DefaultSplit>>)
    IN  layer_loop(layers_of(kb_data), 1, kb, is_split, default_split,
                   split_idx, <<>>, <<>>)

(***************************************************************************)
(* generate_for_keyboard called on a keyboard                              *)
(***************************************************************************)

\* The most entries of a layer mapping.
MaxLayers == 2

Keyboards == { <<"t","o","t","e","m">>, <<"s","o","f","l","e">> }

\* The names of the entries of a layer mapping.
EntryNames == { <<"c","o","n","f","i","g">>, <<"b","a","s","e">>, <<"m","o","1">>, <<"m","o","2">> }

\* A keyboard that is not split (its split_at is None, as in the templates),
\* a split one with a split column, a split one with the default column.
ConfigPool ==
    << << Entry(<<"i","s","_","s","p","l","i","t">>, FALSE), Entry(<<"s","p","l","i","t","_","a","t">>, None) >>,
       << Entry(<<"i","s","_","s","p","l","i","t">>, TRUE), Entry(<<"s","p","l","i","t","_","a","t">>, <<2>>) >>,
       << Entry(<<"i","s","_","s","p","l","i","t">>, TRUE) >> >>

\* A layer with rows, thumbs, an encoder and a held key; a layer with
\* nothing; a layer with thumbs and no rows.
LayerPool ==
    << << Entry(<<"r","o","w","s">>, << << <<"A">>, <<>>, <<"m","o","(","1",")">> >>,
                             << <<"Q">>, <<"W">>, <<"T","R","N","S">>, <<"E","s","c">>, <<"T">> >> >>),
          Entry(<<"t","h","u","m","b","s">>, Take(ThumbBase, 2)),
          Entry(<<"e","n","c","o","d","e","r","s">>, << << <<"V","o","l","-">>, <<"V","o","l","+">> >> >>),
          Entry(<<"p","r","e","s","s","e","d">>, << <<"M","O","(","1",")">> >>) >>,
       <<>>,
       << Entry(<<"t","h","u","m","b","s">>, << <<"M","O","(","1",")">> >>) >> >>

\* The names of the entries of a mapping, in insertion order: up to
\* MaxLayers different names.
NameSeqs ==
    { ns \in SeqsUpTo(EntryNames, MaxLayers) :
        \A i, j \in 1..Len(ns) : ns[i] = ns[j] => i = j }

\* The mapping of these names: entry i is the config or the layer its choice
\* picks in the pool.
Mapping(ns, choice) ==
    [i \in 1..Len(ns) |->
        Entry(ns[i], IF ns[i] = <<"c","o","n","f","i","g">>
                     THEN ConfigPool[choice[i]]
                     ELSE LayerPool[choice[i]])]

\* The keyboard data: the mapping itself in the old format (the layers and
\* the config at top level), and in the current one a "layers" entry
\* holding it, alone or after a config.
KeyboardData(format, m) ==
    IF format = 0 THEN m
    ELSE IF format = 1 THEN << Entry(<<"l","a","y","e","r","s">>, m) >>
    ELSE << Entry(<<"c","o","n","f","i","g">>, ConfigPool[format - 1]), Entry(<<"l","a","y","e","r","s">>, m) >>

SplitIndexes == { None, <<3>> }

InitKeyboard ==
    /\ key = <<>>
    /\ rows = <<>>
    /\ thumbs = <<>>
    /\ encoders = <<>>
    /\ pressed_keys = <<>>
    /\ split_at = DefaultSplit
    /\ NoRow
    /\ keyboard \in Keyboards
    /\ \E ns \in NameSeqs :
       \E choice \in [1..Len(ns) -> 1..3] :
       \E format \in 0..4 :
           keyboard_data = KeyboardData(format, Mapping(ns, choice))
    /\ split_index \in SplitIndexes
    /\ calls = <<>>
    /\ called = "none"
    /\ result = Unset

GenerateForKeyboard ==
    /\ called = "none"
    /\ called' = "generate_for_keyboard"
    /\ LET o == generate_for_keyboard(keyboard, keyboard_data, split_index)
       IN  /\ result' = [raised |-> o.raised, value |-> o.value]
           /\ calls' = o.calls
    /\ UNCHANGED args

NextKeyboard == GenerateForKeyboard

SpecKeyboard == InitKeyboard /\ [][NextKeyboard]_vars

(***************************************************************************)
(* format_row and format_half_row called on a row                          *)
(***************************************************************************)

\* The most labels of the row.
MaxRowLen == 3

\* The largest target width.
MaxWidth == 4

\* An empty ("no key") label, a plain key, a layer key, a transparent key.
RowLabels == { <<>>, <<"A">>, <<"m","o","(","1",")">>, <<"T","R","N","S">> }

InitRow ==
    /\ key = <<>>
    /\ rows = <<>>
    /\ thumbs = <<>>
    /\ encoders = <<>>
    /\ pressed_keys \in LayerPressed
    /\ split_at = DefaultSplit
    /\ the_row \in SeqsUpTo(RowLabels, MaxRowLen)
    /\ the_max_len \in 0..MaxWidth
    /\ NoKeyboard
    /\ called = "none"
    /\ result = Unset

\* The returned line, with the cells it is joined from.
FormatRow ==
    /\ called = "none"
    /\ called' = "format_row"
    /\ result' =
           [raised |-> FALSE,
            value |-> [text |-> format_row(the_row, the_max_len, pressed_keys),
                       cells |-> format_row_cells(the_row, the_max_len,
                                                  pressed_keys)]]
    /\ UNCHANGED <<args, calls>>

FormatHalfRow ==
    /\ called = "none"
    /\ called' = "format_half_row"
    /\ result' =
           [raised |-> FALSE,
            value |-> [text |-> format_half_row(the_row, the_max_len,
                                                pressed_keys),
                       cells |-> half_row_cells(the_row, the_max_len,
                                                pressed_keys)]]
    /\ UNCHANGED <<args, calls>>

NextRow ==
    \/ FormatRow
    \/ FormatHalfRow

SpecRow == InitRow /\ [][NextRow]_vars

(***************************************************************************)
(* Claims about format_key, checked under SpecKey                          *)
(***************************************************************************)

\* The pressed set of the claims: the normalized entries of pressed_keys.
NormalizedPressed == { Normalize(pressed_keys[i]) : i \in 1..Len(pressed_keys) }

Bracketed(k) == <<"[">> \o Center(k, KEY_WIDTH - 2) \o <<"]">>

\* C2 (as claimed): format_key returns exactly KEY_WIDTH (8) characters for
\* every label and every pressed set.
C2_WidthIsKeyWidth ==
    called = "format_key" => Len(result.value) = KEY_WIDTH

\* C3: format_key classifies in the priority order pressed > layer key >
\* transparent > plain: a label whose normal form is in the normalized
\* pressed set gives the held marker whatever else it is; a layer key is
\* bracketed exactly when it is not pressed; a transparent alias gives the
\* "..." marker exactly when it is neither pressed nor a layer key.
C3_PriorityOrder ==
    called = "format_key" =>
        LET n == Normalize(key)
            pressed == n \in NormalizedPressed
        IN  /\ pressed => result.value = HeldMarker
            /\ n \in LAYER_KEYS =>
                   (result.value = Bracketed(key) <=> ~pressed)
            /\ n \in TRANSPARENT_KEYS =>
                   (result.value = TransparentMarker
                        <=> (~pressed /\ n \notin LAYER_KEYS))

\* C3's case: a pressed layer key has been formatted as the held marker.
C3_Witness ==
    /\ called = "format_key"
    /\ Normalize(key) \in LAYER_KEYS
    /\ Normalize(key) \in NormalizedPressed
    /\ result.value = HeldMarker

\* The labels of the pool that differ from k only in case or spaces.
Variants(k) == { v \in Labels : Normalize(v) = Normalize(k) }

IsAlias(k) == Normalize(k) \in (LAYER_KEYS \cup TRANSPARENT_KEYS)

\* C4 (as claimed): with an empty pressed set, every variant of a layer-key
\* or transparent-key alias is formatted to the same string as the alias.
C4_VariantsFormatEqual ==
    (called = "format_key" /\ pressed_keys = <<>> /\ IsAlias(key)) =>
        \A v \in Variants(key) : format_key(v, <<>>) = result.value

\* The text between the first and the last character of a cell.
Inner(cell) == SubSeq(cell, 2, Len(cell) - 1)

\* C4 (amended): with an empty pressed set, every variant of a transparent
\* alias is formatted to the same string as the alias; every variant of a
\* layer-key alias is formatted bracketed like the alias, and the two
\* bracket contents are equal up to case and spaces (each keeps its own
\* spelling).
C4_VariantsFormatAlike ==
    (called = "format_key" /\ pressed_keys = <<>> /\ IsAlias(key)) =>
        \A v \in Variants(key) :
            LET out == format_key(v, <<>>)
            IN  IF Normalize(key) \in TRANSPARENT_KEYS
                THEN out = result.value
                ELSE /\ Head(out) = "[" /\ Head(result.value) = "["
                     /\ out[Len(out)] = "]"
                     /\ result.value[Len(result.value)] = "]"
                     /\ Normalize(Inner(out)) = Normalize(Inner(result.value))

\* C4's case: a layer-key alias that has a differently spelled variant was
\* formatted, bracketed.
C4_Witness ==
    /\ called = "format_key"
    /\ pressed_keys = <<>>
    /\ Normalize(key) \in LAYER_KEYS
    /\ result.value = Bracketed(key)
    /\ \E v \in Variants(key) : format_key(v, <<>>) /= result.value
(***************************************************************************)
(* Claims about the renderers                                              *)
(***************************************************************************)

\* The lines of the returned layout whose kind is in kinds.
LinesOf(kinds) ==
    { result.value[i] : i \in { j \in 1..Len(result.value) :
                                    result.value[j].kind \in kinds } }

RowLines == LinesOf({"row"})

\* C1 (as claimed): each of the three renderers returns a text block without
\* raising for every layer, the layers with rows = [] and a non-empty thumbs
\* list among them.
C1_RenderersNeverRaise ==
    called \in Renderers => ~result.raised

\* C5 (as claimed): in the uniform renderer the top border, every separator
\* and the bottom border are exactly as wide as every row line of the layer.
C5_BordersMatchRows ==
    called = "generate_ascii_layer" =>
        \A b \in LinesOf({"top", "separator", "bottom"}) :
            \A r \in RowLines : Len(b.text) = Len(r.text)

\* C6 (as claimed): in the split renderer without encoders, every row of a
\* half is as wide as that half's top border and separators.
C6_HalfRowsMatchBorders ==
    (called = "generate_split_ascii_layer" /\ encoders = <<>>) =>
        \A b \in LinesOf({"top", "separator"}) :
            \A r \in RowLines :
                /\ Len(r.left) = Len(b.left)
                /\ Len(r.right) = Len(b.right)

\* The largest element of a non-empty finite set of integers.
SetMax(S) == CHOOSE m \in S : \A x \in S : x <= m

\* C7: in the split renderer with at least one row, every row is cut at
\* column split_at into row[0:split_at] and row[split_at:], which put
\* together are the row again; each half is drawn with as many cells as the
\* widest such half of the layer: max over rows of min(split_at, len(row))
\* on the left, of max(0, len(row) - split_at) on the right (one more on the
\* side where row 3 has an encoder cell).
C7_RowsSplitAtColumn ==
    (called = "generate_split_ascii_layer" /\ rows /= <<>> /\ ~result.raised) =>
        LET lw == SetMax({ Min(split_at, Len(rows[i])) : i \in 1..Len(rows) })
            rw == SetMax({ Max(0, Len(rows[i]) - split_at) : i \in 1..Len(rows) })
        IN  /\ { r.row : r \in RowLines } = 0..(Len(rows) - 1)
            /\ \A r \in RowLines :
                   LET row   == rows[r.row + 1]
                       cut   == Min(split_at, Len(row))
                       left  == SubSeq(row, 1, cut)
                       right == SubSeq(row, cut + 1, Len(row))
                       lenc  == Len(r.lkeys) - Len(left)
                       renc  == Len(r.rkeys) - Len(right)
                   IN  /\ left \o right = row
                       /\ lenc \in {0, 1} /\ renc \in {0, 1}
                       /\ SubSeq(r.lkeys, 1, Len(left)) = left
                       /\ SubSeq(r.rkeys, renc + 1, Len(r.rkeys)) = right
                       /\ (r.row /= 3 \/ encoders = <<>>) => lenc = 0 /\ renc = 0
                       /\ r.lcells = lw + lenc
                       /\ r.rcells = rw + renc

\* C7's case: a 12-key row split at column 6 was drawn with 6 cells per half.
C7_Witness ==
    /\ called = "generate_split_ascii_layer"
    /\ split_at = 6
    /\ \E r \in RowLines :
           /\ Len(rows[r.row + 1]) = 12
           /\ Len(r.lkeys) = 6 /\ Len(r.rkeys) = 6
           /\ r.lcells = 6 /\ r.rcells = 6

\* ceil(n / 2)
CeilHalf(n) == CHOOSE c \in 0..n : 2 * c >= n /\ 2 * (c - 1) < n

\* C8 (as claimed): the left thumb block is rendered with ceil(n/2) cells
\* and the right one with the other n - ceil(n/2), whatever the labels are.
C8_ThumbCellCounts ==
    (called = "generate_split_ascii_layer" /\ ~result.raised) =>
        \A t \in LinesOf({"thumbs"}) :
            /\ t.lcells = CeilHalf(Len(thumbs))
            /\ t.rcells = Len(thumbs) - CeilHalf(Len(thumbs))

\* C9 (as claimed): when row 3 carries an encoder cell on a half, the
\* separator above it and the separator below it have as many cells on that
\* half as row 3 has.
C9_SeparatorsMatchEncoderRow ==
    called = "generate_split_ascii_layer" =>
        \A r \in { l \in RowLines : l.row = 3 } :
            \A s \in { l \in LinesOf({"separator"}) : l.row \in {2, 3} } :
                /\ Len(r.lkeys) > Len(split_left(rows[4], split_at))
                       => s.lcells = r.lcells
                /\ Len(r.rkeys) > Len(split_right(rows[4], split_at))
                       => s.rcells = r.rcells

\* The row lines of the same layer rendered without encoders.
RowLinesWithoutEncoders ==
    LET base == generate_split_ascii_layer(LayerName, rows, thumbs, <<>>,
                                           pressed_keys, split_at).value
    IN  { base[i] : i \in { j \in 1..Len(base) : base[j].kind = "row" } }

\* C10 (as claimed): encoders change only row 3 and only on the side that
\* has an encoder: with one encoder the left half of row 3 gains a trailing
\* "CCW/CW" cell and its right half is as without encoders; with two the
\* right half gains a leading cell; the other rows are as without encoders.
C10_EncodersChangeOnlyTheirSide ==
    (called = "generate_split_ascii_layer" /\ ~result.raised
         /\ encoders /= <<>>) =>
        \A r \in RowLines : \A b \in RowLinesWithoutEncoders :
            r.row = b.row =>
                IF r.row /= 3 THEN r = b
                ELSE /\ r.lkeys = b.lkeys \o << enc_display(encoders[1]) >>
                     /\ Len(encoders) = 1 => r.right = b.right
                     /\ Len(encoders) = 2 =>
                            r.rkeys = << enc_display(encoders[2]) >> \o b.rkeys

(***************************************************************************)
(* Claims about generate_for_keyboard, checked under SpecKeyboard          *)
(***************************************************************************)

\* config.is_split of the keyboard data, False when it is missing.
ConfigIsSplit ==
    Get(Get(keyboard_data, <<"c","o","n","f","i","g">>, <<>>), <<"i","s","_","s","p","l","i","t">>, FALSE)

\* C11 (as claimed): generate_for_keyboard renders every layer with the totem
\* renderer if the keyboard name is "totem", whatever config.is_split is;
\* otherwise with the split renderer if config.is_split is true; otherwise
\* with the uniform renderer.
C11_RendererByNameThenIsSplit ==
    called = "generate_for_keyboard" =>
        \A i \in 1..Len(calls) :
            calls[i].renderer =
                IF keyboard = <<"t","o","t","e","m">> THEN "generate_totem_ascii_layer"
                ELSE IF ConfigIsSplit THEN "generate_split_ascii_layer"
                ELSE "generate_ascii_layer"

\* C11 (amended): generate_for_keyboard renders every layer with the uniform
\* renderer if config.is_split is false or missing, whatever the keyboard
\* name is; otherwise with the totem renderer if the keyboard name is
\* "totem"; otherwise with the split renderer.
C11_RendererByIsSplitThenName ==
    called = "generate_for_keyboard" =>
        \A i \in 1..Len(calls) :
            calls[i].renderer =
                IF ~ConfigIsSplit THEN "generate_ascii_layer"
                ELSE IF keyboard = <<"t","o","t","e","m">> THEN "generate_totem_ascii_layer"
                ELSE "generate_split_ascii_layer"

\* A keyboard named "totem" that is not split had two layers rendered, both
\* by the uniform renderer.
C11_Witness ==
    /\ called = "generate_for_keyboard"
    /\ keyboard = <<"t","o","t","e","m">>
    /\ ~ConfigIsSplit
    /\ ~result.raised
    /\ Len(calls) = 2
    /\ \A i \in 1..2 : calls[i].renderer = "generate_ascii_layer"
\* The layer mapping of the claims: the "layers" entry of the keyboard data
\* if there is one, the keyboard data itself otherwise.
ClaimedLayerMapping ==
    IF HasKey(keyboard_data, <<"l","a","y","e","r","s">>)
    THEN Get(keyboard_data, <<"l","a","y","e","r","s">>, <<>>)
    ELSE keyboard_data

\* The names of the entries of a mapping that are not "config", in
\* insertion order.
DiagramNames(m) ==
    SelectSeq([i \in 1..Len(m) |-> m[i].name], LAMBDA n : n /= <<"c","o","n","f","i","g">>)

\* The lines of these kinds, in the order of the returned text.
LinesInOrder(kinds) == SelectSeq(result.value, LAMBDA l : l.kind \in kinds)

\* C12 (as claimed): on keyboard data with a "layers" entry, or without one
\* and with a "base" entry at top level, generate_for_keyboard returns a text
\* with exactly one block per entry of the layer mapping that is not named
\* "config", in insertion order (the titles name the layers in that order),
\* each block from its opening to its closing marker and followed by one
\* empty line; nothing else is in the text.
C12_OneBlockPerLayerInOrder ==
    ( /\ called = "generate_for_keyboard"
      /\ \/ HasKey(keyboard_data, <<"l","a","y","e","r","s">>)
         \/ HasKey(keyboard_data, <<"b","a","s","e">>) ) =>
        LET names == DiagramNames(ClaimedLayerMapping)
            doc == result.value
            titles == LinesInOrder({"title"})
        IN  /\ ~result.raised
            /\ Len(titles) = Len(names)
            /\ \A i \in 1..Len(names) :
                   titles[i].text =
                       Prefix \o Upper(keyboard) \o <<" ","-"," ">> \o Upper(names[i])
                              \o <<" ","L","a","y","e","r">>
            /\ Len(LinesInOrder({"open"})) = Len(names)
            /\ Len(LinesInOrder({"close"})) = Len(names)
            /\ Len(LinesInOrder({"blank"})) = Len(names)
            /\ \A i \in 1..Len(doc) :
                   /\ doc[i].kind = "open" => i = 1 \/ doc[i - 1].kind = "blank"
                   /\ doc[i].kind = "title" => i > 1 /\ doc[i - 1].kind = "open"
                   /\ doc[i].kind = "close" =>
                          i < Len(doc) /\ doc[i + 1].kind = "blank"
                   /\ doc[i].kind = "blank" => i > 1 /\ doc[i - 1].kind = "close"
(***************************************************************************)
(* Claims about the three renderers, checked under Spec                    *)
(***************************************************************************)

\* The texts of the returned lines, in order.
Texts == [i \in 1..Len(result.value) |-> result.value[i].text]

\* C13: each of the three renderers, called with no rows and no thumbs,
\* returns exactly four lines, the opening marker, the title, the
\* placeholder " * No keys defined for this layer" and the closing marker,
\* whatever the pressed keys and the encoders are.
C13_EmptyLayerIsPlaceholder ==
    (called \in Renderers /\ rows = <<>> /\ thumbs = <<>>) =>
        /\ ~result.raised
        /\ Texts = << <<"/","*">>,
                      <<" ","*"," ">> \o LayerName,
                      <<" ","*"," ","N","o"," ","k","e","y","s"," ","d","e","f","i","n","e","d"," ","f","o","r"," ","t","h","i","s"," ","l","a","y","e","r">>,
                      <<" ","*","/">> >>

\* The split renderer returned the placeholder for a layer without rows and
\* thumbs that has an encoder and a pressed key.
C13_Witness ==
    /\ called = "generate_split_ascii_layer"
    /\ rows = <<>>
    /\ thumbs = <<>>
    /\ encoders /= <<>>
    /\ pressed_keys /= <<>>
    /\ Len(result.value) = 4
    /\ result.value[3].kind = "placeholder"
(***************************************************************************)
(* Claims about the thumb row of the split renderer, checked under         *)
(* SpecSplit                                                               *)
(***************************************************************************)

IsBlank(s) == \A i \in 1..Len(s) : s[i] = " "

\* The line ends with its left block, its gap and its right block.
EndsWithBlocks(l) ==
    LET tail == l.left \o l.gap \o l.right
    IN  /\ Len(tail) <= Len(l.text)
        /\ Drop(l.text, Len(l.text) - Len(tail)) = tail

\* C14 (as claimed): in the split renderer the blank gap between the left and
\* the right thumb sub-cluster on the thumb row is as wide as the spacer
\* between the two halves on the row lines, 5 * KEY_WIDTH = 40 spaces.
C14_ThumbGapMatchesSpacer ==
    called = "generate_split_ascii_layer" =>
        \A t \in LinesOf({"thumbs"}) :
            /\ IsBlank(t.gap)
            /\ Len(t.gap) = 5 * KEY_WIDTH
            /\ \A r \in RowLines : Len(t.gap) = Len(r.gap)

\* C14 (amended): in the split renderer the blank gap between the left and
\* the right thumb sub-cluster on the thumb row is as wide as the blank run
\* between the two halves of the bottom border, 3 * KEY_WIDTH - 2 = 22
\* spaces, and the row lines have a spacer of 5 * KEY_WIDTH = 40 spaces.
C14_ThumbGapMatchesBottomBorder ==
    called = "generate_split_ascii_layer" =>
        \A t \in LinesOf({"thumbs"}) :
            /\ IsBlank(t.gap)
            /\ Len(t.gap) = 3 * KEY_WIDTH - 2
            /\ EndsWithBlocks(t)
            /\ \A b \in LinesOf({"bottom"}) :
                   /\ IsBlank(b.gap)
                   /\ Len(b.gap) = Len(t.gap)
                   /\ EndsWithBlocks(b)
            /\ \A r \in RowLines :
                   /\ IsBlank(r.gap)
                   /\ Len(r.gap) = 5 * KEY_WIDTH
                   /\ EndsWithBlocks(r)

\* A thumb row with a left and a right sub-cluster was drawn under rows.
C14_Witness ==
    /\ called = "generate_split_ascii_layer"
    /\ ~result.raised
    /\ RowLines /= {}
    /\ \E t \in LinesOf({"thumbs"}) :
           /\ t.left /= <<>>
           /\ t.right /= <<>>
           /\ Len(t.gap) = 22
(***************************************************************************)
(* Claims about format_row and format_half_row, checked under SpecRow      *)
(***************************************************************************)

\* The cells and the line the called function gives at the target width w.
CellsAt(w) ==
    IF called = "format_row"
    THEN format_row_cells(the_row, w, pressed_keys)
    ELSE half_row_cells(the_row, w, pressed_keys)

TextAt(w) ==
    IF called = "format_row"
    THEN format_row(the_row, w, pressed_keys)
    ELSE format_half_row(the_row, w, pressed_keys)

\* C15 (as claimed): format_row and format_half_row, called on a row (that
\* may hold empty labels) at a target width w >= len(row), give w cells: the
\* label at index j is shown in cell j (an empty label as a blank cell), as at
\* every smaller target width; the cells after the row's own are blank; and
\* the line is strictly wider than at every smaller target width.
C15_PaddingOnlyAppendsBlanks ==
    (called \in {"format_row", "format_half_row"}
        /\ the_max_len >= Len(the_row)) =>
        LET cells == result.value.cells
        IN  /\ Len(cells) = the_max_len
            /\ \A j \in 1..Len(the_row) :
                   /\ Strip(cells[j]) =
                          Strip(format_key(the_row[j], pressed_keys))
                   /\ \A w \in Len(the_row)..the_max_len :
                          CellsAt(w)[j] = cells[j]
            /\ \A j \in (Len(the_row) + 1)..the_max_len : IsBlank(cells[j])
            /\ \A w \in Len(the_row)..(the_max_len - 1) :
                   Len(TextAt(w)) < Len(result.value.text)
(***************************************************************************)
(* Claims about the totem renderer, checked under SpecTotem                *)
(***************************************************************************)

\* C16 (as claimed): the totem renderer, called on three rows of 10, 10 and
\* 12 keys, draws the bottom border under row 3 exactly as wide as the line
\* of row 3 and as the connector line between rows 2 and 3.
C16_BottomBorderAsWideAsRow3 ==
    ( /\ called = "generate_totem_ascii_layer"
      /\ Len(rows) = 3
      /\ Len(rows[1]) = 10 /\ Len(rows[2]) = 10 /\ Len(rows[3]) = 12 ) =>
        /\ ~result.raised
        /\ LinesOf({"bottom"}) /= {}
        /\ \A b \in LinesOf({"bottom"}) :
               /\ \A r \in RowLines : r.row = 2 => Len(b.text) = Len(r.text)
               /\ \A c \in LinesOf({"connector"}) : Len(b.text) = Len(c.text)
====
